---- MODULE Spec2Model ----
(***************************************************************************)
(* Credit analytics: the hazard-rate bootstrapping engine                  *)
(* (src/src/hazard_rate.py) and the basis analyzer                         *)
(* (src/src/basis_analysis.py).                                            *)
(*                                                                         *)
(* Units.  The program computes with floats; the model computes with       *)
(* integers in fixed units:                                                *)
(*   time     quarter-years            (TimePerYear units = 1 year)        *)
(*   hazard   1e-6 per year            (HazardScale units = 1.0)           *)
(*   spread   basis points, as stored in cds_curve                         *)
(*   recovery percent                  (RecoveryScale units = 1.0)         *)
(*   z-spread and basis: 1/1000 bp     (MilliPerBp units = 1 bp)           *)
(*   rates and yields: bond fields in basis points, computed values in     *)
(*            1/1000 bp                                                    *)
(*   money    1e-4 of a currency unit  (MoneyScale units = 1.00)           *)
(* A survival probability S is carried as its cumulative hazard            *)
(* H = -ln S, in hazard x time units: S = exp(-H / (HazardScale *          *)
(* TimePerYear)).  exp is strictly decreasing, so S1 >= S2 iff H1 <= H2,   *)
(* S = 1.0 iff H = 0 and S <= 1 iff H >= 0.                                *)
(* A bond price P is carried as a level L: price_with_spread is strictly   *)
(* decreasing in the spread z, and the level of price_with_spread(z) is    *)
(* -z, so P1 < P2 iff L1 < L2.                                             *)
(***************************************************************************)
EXTENDS Integers, Sequences, FiniteSets, TLC

VARIABLES
    dicts,          \* the heap of dict objects holding spread curves: ref -> <<tenor, spread>> pairs in insertion order
    market_data,    \* the snapshot dict; market_data["cds_curve"] is a ref into dicts
    z_solved,       \* the root brentq returns for this snapshot's objective when its bracket holds, in 1/1000 bp
    ytm_solved,     \* the value calculate_ytm(target_price) returns for this snapshot, in 1/1000 bp
    pc,             \* HazardRateEngine.__init__: "start", "bootstrap", "solving", "done", "raised"
    exc,            \* the exception __init__ raised, or "none"
    engine_cds,     \* self.cds_curve of the engine: a ref into dicts (0: not yet assigned)
    recovery,       \* self.recovery
    hazard_rates,   \* self.hazard_rates: tenor -> hazard
    node,           \* the loop index i of _bootstrap: nodes calibrated so far
    nfev,           \* objective evaluations of the fsolve call in progress
    integration_step, \* self.integration_step, in quarter-years
    log,            \* the records logged at warning and error level
    result,         \* the objective evaluation in progress, then the last query made of the constructed engine
    apc,            \* BasisAnalyzer: "none", "idle", "loop", "shocked", "analyzed", "returned", "raised"
    analysis,       \* what the last analyze() call computed
    spread_shocks,  \* stress_test_basis: the shocks list
    shock_ix,       \* stress_test_basis: index of the shock being processed
    base_cds,       \* stress_test_basis: base_analysis['CDS_Spread_bps']
    original_curve, \* stress_test_basis: the ref held by the local original_curve
    results,        \* stress_test_basis: the rows appended so far
    pre_curve,      \* the entries of the analyzer's curve when stress_test_basis was called
    provider        \* CreditDataProvider in cached mode: the clock, the cache file, the calls made

vars == <<dicts, market_data, z_solved, ytm_solved, integration_step, pc, exc, engine_cds, recovery, hazard_rates,
          node, nfev, log, result, apc, analysis, spread_shocks, shock_ix, base_cds,
          original_curve, results, pre_curve, provider>>

engineVars == <<pc, exc, engine_cds, recovery, hazard_rates, node, nfev, log, result>>
analyzerVars == <<apc, analysis, spread_shocks, shock_ix, base_cds, original_curve,
                  results, pre_curve>>

-----------------------------------------------------------------------------
(* Bounds of the model *)

MaxNodes == 2       \* longest spread curve
MaxFev == 2         \* max_iterations handed to fsolve as maxfev
MaxTime == 10       \* largest query time, in quarter-years
MaxShocks == 2      \* longest shocks list
MaxMaturity == 6    \* largest years_to_maturity of a priced bond, in quarter-years
MaxClock == 3       \* last instant of the provider's clock
MaxFetches == 2     \* most live fetches of a provider

(* Units *)
TimePerYear == 2 * 2
HazardScale == 1000 * 1000
RecoveryScale == 10 * 10
MilliPerBp == 10 * 10 * 10
MoneyScale == 100 * 100

(* Program constants *)
MIN_HAZARD_RATE == 1
QUARTERLY_STEP == 1
MAX_HAZARD_RATE == 1000000
BpsPerUnit == 10000
ResidualTolerance == 1
StrongBasisBps == 20

(* Input values *)
TenorSet == {2, 4, 8}
IntegrationSteps == {QUARTERLY_STEP, 3}
SpreadValues == {-50, 80, 8000}
RecoveryValues == {-10, 0, 40, 100, 110}
SolverValues == {-5000, 0, 15000, 2000000}
ResidualValues == {-3, 0, 1, 2}
Times == -1 .. MaxTime
RequiredKeys == {"bond", "cds_curve", "treasury_curve"}
KeySets == {RequiredKeys, {"bond", "cds_curve"}, {"bond", "treasury_curve"},
            {"cds_curve", "treasury_curve"}, {"bond"}}
TreasuryCurves == {<< >>, <<<<4, 425>>, <<8, 425>>>>}
None == << >>
Some(x) == <<x>>
NoResult == [op |-> "none"]
NoAnalysis == [called |-> FALSE]
NoProvider == [mode |-> "dummy"]

-----------------------------------------------------------------------------
(* Python dicts: a dict with insertion order is a sequence of <<key, value>> *)
(* pairs with distinct keys.                                                *)

Keys(d) == {d[k][1] : k \in DOMAIN d}

KeyList(d) == [k \in DOMAIN d |-> d[k][1]]

Get(d, key) == d[CHOOSE k \in DOMAIN d : d[k][1] = key][2]

GetOr(d, key, default) == IF key \in Keys(d) THEN Get(d, key) ELSE default

DictSet(f, key, value) == [x \in (DOMAIN f) \union {key} |-> IF x = key THEN value ELSE f[x]]

Abs(x) == IF x < 0 THEN -x ELSE x

Sign(x) == IF x > 0 THEN 1 ELSE IF x < 0 THEN -1 ELSE 0

RECURSIVE sorted(_)
sorted(S) ==
    IF S = {} THEN << >>
    ELSE LET m == CHOOSE x \in S : \A y \in S : x <= y
         IN  <<m>> \o sorted(S \ {m})

(* np.arange(start, stop, step) with step > 0: ceil((stop - start) / step) *)
(* values start, start + step, ...                                         *)
arange(start, stop, step) ==
    LET n == IF stop > start THEN (stop - start + step - 1) \div step ELSE 0
    IN  [k \in 1..n |-> start + (k - 1) * step]

IsCurve(d) == \A j, k \in DOMAIN d : d[j][1] = d[k][1] => j = k

CurvesOver(n, spreads) ==
    {d \in UNION {[1..m -> TenorSet \X spreads] : m \in 0..n} : IsCurve(d)}

Curves(n) == CurvesOver(n, SpreadValues)

-----------------------------------------------------------------------------
(* HazardRateEngine: pure parts *)

(* _validate_market_data: the exception it raises, or "none".  A bond dict *)
(* without 'recovery_rate' makes data['bond']['recovery_rate'] a KeyError. *)
validate_no_recovery_check(data) ==
    IF ~(RequiredKeys \subseteq DOMAIN data) THEN "ValueError"
    ELSE IF dicts[data["cds_curve"]] = << >> THEN "ValueError"
    ELSE IF "recovery_rate" \notin DOMAIN data["bond"] THEN "KeyError"
    ELSE "none"

_validate_market_data(data) ==
    IF ~(RequiredKeys \subseteq DOMAIN data) THEN "ValueError"
    ELSE IF dicts[data["cds_curve"]] = << >> THEN "ValueError"
    ELSE IF "recovery_rate" \notin DOMAIN data["bond"] THEN "KeyError"
    ELSE IF ~(0 <= data["bond"]["recovery_rate"]
              /\ data["bond"]["recovery_rate"] <= RecoveryScale) THEN "ValueError"
    ELSE "none"

(* The loop of survival_prob over sorted_tenors from index k on, with the  *)
(* running cumulative_hazard and prev_t; the value is the cumulative       *)
(* hazard whose exp(-.) the code returns.                                  *)
RECURSIVE survival_loop_stale_prev(_, _, _, _, _, _)
survival_loop_stale_prev(hr, st, k, t, cumulative_hazard, prev_t) ==
    IF k > Len(st)
    THEN cumulative_hazard + hr[st[Len(st)]] * (t - prev_t)
    ELSE IF t <= st[k]
         THEN cumulative_hazard + hr[st[k]] * (t - prev_t)
         ELSE survival_loop_stale_prev(hr, st, k + 1, t,
                            cumulative_hazard + hr[st[k]] * (st[k] - prev_t), prev_t)

RECURSIVE survival_loop(_, _, _, _, _, _)
survival_loop(hr, st, k, t, cumulative_hazard, prev_t) ==
    IF k > Len(st)
    THEN cumulative_hazard + hr[st[Len(st)]] * (t - prev_t)
    ELSE IF t <= st[k]
         THEN cumulative_hazard + hr[st[k]] * (t - prev_t)
         ELSE survival_loop(hr, st, k + 1, t,
                            cumulative_hazard + hr[st[k]] * (st[k] - prev_t), st[k])

(* survival_prob(t) = exp(-H): the model carries H; 1.0 is H = 0 *)
survival_prob(hr, t) ==
    IF t <= 0 THEN 0
    ELSE survival_loop(hr, sorted(DOMAIN hr), 1, t, 0, 0)

(* sorted(self.cds_curve.keys()) of _bootstrap *)
insertion_order_tenors(ref) == KeyList(dicts[ref])

sorted_tenors(ref) == sorted(Keys(dicts[ref]))

(* spread = self.cds_curve[tenor] / 10000, in hazard units *)
spread_of(ref, tenor) == Get(dicts[ref], tenor) * (HazardScale \div BpsPerUnit)

(* spread / (1 - self.recovery); the caller guards recovery = 1 *)
credit_triangle(spread, R) == (spread * RecoveryScale) \div (RecoveryScale - R)

(* np.clip(solved_lambda, MIN_HAZARD_RATE, MAX_HAZARD_RATE) *)
clip(x, lo, hi) == IF x < lo THEN lo ELSE IF x > hi THEN hi ELSE x

(* s <= 0 for a survival probability s = exp(-H): the float exp(-x) is 0.0 *)
(* only for x above 745                                                    *)
is_zero(H) == H \div (HazardScale * TimePerYear) > 745

(* get_forward_hazard_rate(t1, t2), lines 292-301: the exception, the      *)
(* survival probabilities computed, and the value as <<numerator,          *)
(* denominator>>.  With s = exp(-H), -np.log(s2 / s1) is H2 - H1.          *)
get_forward_hazard_rate_strict(hr, t1, t2) ==
    IF t2 < t1
    THEN [exc |-> "ValueError", survival_probs |-> << >>, value |-> None]
    ELSE LET s1 == survival_prob(hr, t1)
             s2 == survival_prob(hr, t2)
         IN  [exc |-> "none",
              survival_probs |-> <<s1, s2>>,
              value |-> IF is_zero(s2) THEN <<MAX_HAZARD_RATE, 1>>
                        ELSE <<s2 - s1, t2 - t1>>]

get_forward_hazard_rate_inverted(hr, t1, t2) ==
    IF t2 <= t1
    THEN [exc |-> "ValueError", survival_probs |-> << >>, value |-> None]
    ELSE LET s1 == survival_prob(hr, t1)
             s2 == survival_prob(hr, t2)
         IN  [exc |-> "none",
              survival_probs |-> <<s1, s2>>,
              value |-> IF is_zero(s2) THEN <<MAX_HAZARD_RATE, 1>>
                        ELSE <<s1 - s2, t2 - t1>>]

get_forward_hazard_rate(hr, t1, t2) ==
    IF t2 <= t1
    THEN [exc |-> "ValueError", survival_probs |-> << >>, value |-> None]
    ELSE LET s1 == survival_prob(hr, t1)
             s2 == survival_prob(hr, t2)
         IN  [exc |-> "none",
              survival_probs |-> <<s1, s2>>,
              value |-> IF is_zero(s2) THEN <<MAX_HAZARD_RATE, 1>>
                        ELSE <<s2 - s1, t2 - t1>>]

(* HazardRateEngine._get_risk_free_rate(t), lines 142-156, over a          *)
(* non-empty curve, in 1/1000 bp: the interpolation loop from index i on,  *)
(* then the two clamps and the loop                                        *)
RECURSIVE HazardRateEngine_interpolate(_, _, _, _)
HazardRateEngine_interpolate(rf_curve, st, i, t) ==
    IF i >= Len(st) THEN Get(rf_curve, st[Len(st)]) * MilliPerBp
    ELSE IF st[i] <= t /\ t <= st[i + 1]
         THEN LET r1 == Get(rf_curve, st[i])
                  r2 == Get(rf_curve, st[i + 1])
              IN  r1 * MilliPerBp
                      + ((r2 - r1) * MilliPerBp * (t - st[i])) \div (st[i + 1] - st[i])
         ELSE HazardRateEngine_interpolate(rf_curve, st, i + 1, t)

HazardRateEngine_get_risk_free_rate(rf_curve, t) ==
    LET st == sorted(Keys(rf_curve))
    IN  IF t <= st[1] THEN Get(rf_curve, st[1]) * MilliPerBp
        ELSE IF t >= st[Len(st)] THEN Get(rf_curve, st[Len(st)]) * MilliPerBp
        ELSE HazardRateEngine_interpolate(rf_curve, st, 1, t)

(* objective(lambda_current) of _solve_for_hazard_rate, lines 214-244,    *)
(* after the trial value is stored in hr: the time grid and the terms of   *)
(* the two legs.  A survival probability is carried as its cumulative      *)
(* hazard and a discount factor exp(-rf_rate * t) as its exponent; a       *)
(* premium term is spread * integration_step * surv_t * discount_factor,   *)
(* a protection term (1 - recovery) * (surv_prev - surv_t) *               *)
(* discount_factor; the value returned is premium_leg - protection_leg.    *)
_solve_for_hazard_rate_objective(hr, rf_curve, tenor, spread, R, step) ==
    LET time_grid == arange(step, tenor + step, step)
        st == sorted(DOMAIN hr)
        S(t) == IF t <= 0 THEN 0 ELSE survival_loop(hr, st, 1, t, 0, 0)
        terms == [k \in DOMAIN time_grid |->
                     LET t == time_grid[k]
                         surv_t == S(t)
                         surv_prev == S(t - step)
                         discount_factor == HazardRateEngine_get_risk_free_rate(rf_curve, t) * t
                     IN  [premium |-> [spread |-> spread,
                                       integration_step |-> step,
                                       surv_t |-> surv_t,
                                       discount_factor |-> discount_factor],
                          protection |-> [loss |-> RecoveryScale - R,
                                          surv_prev |-> surv_prev,
                                          surv_t |-> surv_t,
                                          discount_factor |-> discount_factor]]]
    IN  [op |-> "objective",
         tenor |-> tenor,
         time_grid |-> time_grid,
         premium_leg |-> [k \in DOMAIN time_grid |-> terms[k].premium],
         protection_leg |-> [k \in DOMAIN time_grid |-> terms[k].protection]]

-----------------------------------------------------------------------------
(* HazardRateEngine.__init__ *)

AfterNode(n) == IF n = Len(sorted_tenors(engine_cds)) THEN "done" ELSE "bootstrap"

(* Lines 52-61: validation, then the fields *)
Construct ==
    /\ pc = "start"
    /\ LET e == _validate_market_data(market_data)
       IN  IF e # "none"
           THEN /\ pc' = "raised"
                /\ exc' = e
                /\ UNCHANGED <<engine_cds, recovery, hazard_rates>>
           ELSE /\ pc' = "bootstrap"
                /\ engine_cds' = market_data["cds_curve"]
                /\ recovery' = market_data["bond"]["recovery_rate"]
                /\ hazard_rates' = << >>
                /\ exc' = exc
    /\ UNCHANGED <<dicts, market_data, z_solved, ytm_solved, integration_step, provider, node, nfev, log, result>>
    /\ UNCHANGED analyzerVars

(* _bootstrap, i == 0: the credit triangle; 1 - recovery = 0 raises *)
BootstrapFirst ==
    /\ pc = "bootstrap"
    /\ node = 0
    /\ LET tenor == sorted_tenors(engine_cds)[1]
           spread == spread_of(engine_cds, tenor)
       IN  IF recovery = RecoveryScale
           THEN /\ pc' = "raised"
                /\ exc' = "ZeroDivisionError"
                /\ UNCHANGED <<hazard_rates, node>>
           ELSE /\ hazard_rates' = DictSet(hazard_rates, tenor, credit_triangle(spread, recovery))
                /\ node' = 1
                /\ pc' = AfterNode(1)
                /\ exc' = exc
    /\ UNCHANGED <<dicts, market_data, z_solved, ytm_solved, integration_step, provider, engine_cds, recovery, nfev, log, result>>
    /\ UNCHANGED analyzerVars

(* _bootstrap, i > 0: _solve_for_hazard_rate is entered and fsolve called *)
SolveStart ==
    /\ pc = "bootstrap"
    /\ node >= 1
    /\ pc' = "solving"
    /\ nfev' = 0
    /\ UNCHANGED <<dicts, market_data, z_solved, ytm_solved, integration_step, provider, exc, engine_cds, recovery, hazard_rates,
                   node, log, result>>
    /\ UNCHANGED analyzerVars

(* One call of objective(lambda_current) by fsolve: the trial value is     *)
(* written into the shared curve (line 216); the first call is at the      *)
(* initial guess, the previous node's hazard.  With an empty treasury      *)
(* curve _get_risk_free_rate raises IndexError, fsolve lets it through,    *)
(* and the except branch returns the credit triangle (lines 276-279).      *)
ObjectiveEval(lambda_current) ==
    /\ pc = "solving"
    /\ nfev < MaxFev
    /\ LET st == sorted_tenors(engine_cds)
           tenor == st[node + 1]
           spread == spread_of(engine_cds, tenor)
       IN  /\ nfev = 0 => lambda_current = hazard_rates[st[node]]
           /\ IF market_data["treasury_curve"] = << >>
              THEN /\ log' = log \union {[level |-> "error", tenor |-> tenor]}
                   /\ hazard_rates' = DictSet(hazard_rates, tenor,
                                              credit_triangle(spread, recovery))
                   /\ node' = node + 1
                   /\ pc' = AfterNode(node + 1)
                   /\ nfev' = 0
                   /\ result' = NoResult
              ELSE /\ hazard_rates' = DictSet(hazard_rates, tenor, lambda_current)
                   /\ nfev' = nfev + 1
                   /\ result' = _solve_for_hazard_rate_objective(
                                     DictSet(hazard_rates, tenor, lambda_current),
                                     market_data["treasury_curve"], tenor, spread,
                                     recovery, integration_step)
                   /\ UNCHANGED <<log, node, pc>>
    /\ UNCHANGED <<dicts, market_data, z_solved, ytm_solved, integration_step, provider, exc, engine_cds, recovery>>
    /\ UNCHANGED analyzerVars

SolveReturnKeepsTrial(x, fvec) ==
    /\ pc = "solving"
    /\ nfev >= 1
    /\ LET tenor == sorted_tenors(engine_cds)[node + 1]
       IN  /\ log' = IF fvec > ResidualTolerance
                     THEN log \union {[level |-> "warning", tenor |-> tenor]}
                     ELSE log
           /\ hazard_rates' = hazard_rates
    /\ node' = node + 1
    /\ pc' = AfterNode(node + 1)
    /\ nfev' = 0
    /\ result' = NoResult
    /\ UNCHANGED <<dicts, market_data, z_solved, ytm_solved, integration_step, provider, exc, engine_cds, recovery>>
    /\ UNCHANGED analyzerVars

(* fsolve returns (x, info): lines 257-274 and the assignment of line 179. *)
(* With full_output=True fsolve never raises for non-convergence; x and    *)
(* the residual info['fvec'][0] are whatever MINPACK ended on.             *)
SolveReturn(x, fvec) ==
    /\ pc = "solving"
    /\ nfev >= 1
    /\ LET tenor == sorted_tenors(engine_cds)[node + 1]
       IN  /\ log' = IF fvec > ResidualTolerance
                     THEN log \union {[level |-> "warning", tenor |-> tenor]}
                     ELSE log
           /\ hazard_rates' = DictSet(hazard_rates, tenor,
                                      clip(x, MIN_HAZARD_RATE, MAX_HAZARD_RATE))
    /\ node' = node + 1
    /\ pc' = AfterNode(node + 1)
    /\ nfev' = 0
    /\ result' = NoResult
    /\ UNCHANGED <<dicts, market_data, z_solved, ytm_solved, integration_step, provider, exc, engine_cds, recovery>>
    /\ UNCHANGED analyzerVars

(* A calculate_ytm call is in its Newton loop: no other call can begin *)
InCall == result.op = "calculate_ytm" /\ result.status = "loop"

(* A survival_prob(t) call on the constructed engine *)
SurvivalProbStoring(t) ==
    /\ pc = "done"
    /\ ~InCall
    /\ result' = [op |-> "survival_prob", t |-> t, value |-> survival_prob(hazard_rates, t)]
    /\ hazard_rates' = IF t > 0
                       THEN DictSet(hazard_rates, t, survival_prob(hazard_rates, t) \div t)
                       ELSE hazard_rates
    /\ UNCHANGED <<dicts, market_data, z_solved, ytm_solved, integration_step, provider, pc, exc, engine_cds, recovery,
                   node, nfev, log>>
    /\ UNCHANGED analyzerVars

SurvivalProb(t) ==
    /\ pc = "done"
    /\ ~InCall
    /\ result' = [op |-> "survival_prob", t |-> t, value |-> survival_prob(hazard_rates, t)]
    /\ UNCHANGED <<dicts, market_data, z_solved, ytm_solved, integration_step, provider, pc, exc, engine_cds, recovery,
                   hazard_rates, node, nfev, log>>
    /\ UNCHANGED analyzerVars

(* A get_forward_hazard_rate(t1, t2) call on the constructed engine *)
ForwardHazard(t1, t2) ==
    /\ pc = "done"
    /\ ~InCall
    /\ LET r == get_forward_hazard_rate(hazard_rates, t1, t2)
       IN  result' = [op |-> "get_forward_hazard_rate", t1 |-> t1, t2 |-> t2,
                      exc |-> r.exc, survival_probs |-> r.survival_probs,
                      value |-> r.value]
    /\ UNCHANGED <<dicts, market_data, z_solved, ytm_solved, integration_step, provider, pc, exc, engine_cds, recovery,
                   hazard_rates, node, nfev, log>>
    /\ UNCHANGED analyzerVars

(* A get_curve_summary() call, lines 311-320: the tenors, the hazards and  *)
(* the survival probabilities at the tenors, the extreme hazards, and the  *)
(* mean as <<sum, count>>                                                  *)
RECURSIVE SeqSum(_, _)
SeqSum(xs, k) == IF k > Len(xs) THEN 0 ELSE xs[k] + SeqSum(xs, k + 1)

get_curve_summary(hr) ==
    LET tenors == sorted(DOMAIN hr)
        values == [k \in DOMAIN tenors |-> hr[tenors[k]]]
    IN  [tenors |-> tenors,
         hazard_rates |-> values,
         survival_probs |-> [k \in DOMAIN tenors |-> survival_prob(hr, tenors[k])],
         avg_hazard_rate |-> <<SeqSum(values, 1), Len(values)>>,
         max_hazard_rate |-> CHOOSE x \in {hr[t] : t \in DOMAIN hr} :
                                 \A t \in DOMAIN hr : hr[t] <= x,
         min_hazard_rate |-> CHOOSE x \in {hr[t] : t \in DOMAIN hr} :
                                 \A t \in DOMAIN hr : x <= hr[t]]

GetCurveSummary ==
    /\ pc = "done"
    /\ ~InCall
    /\ result' = [op |-> "get_curve_summary", value |-> get_curve_summary(hazard_rates)]
    /\ UNCHANGED <<dicts, market_data, z_solved, ytm_solved, integration_step, provider, pc, exc, engine_cds, recovery,
                   hazard_rates, node, nfev, log>>
    /\ UNCHANGED analyzerVars

-----------------------------------------------------------------------------
(* The engine under construction from any snapshot; a step other than the *)
(* default is tried on the snapshots of the input contract with 80 bps at  *)
(* every tenor and recovery 0.40                                           *)

Bonds == {[years_to_maturity |-> 8]}
           \union {[recovery_rate |-> r, years_to_maturity |-> 8] : r \in RecoveryValues}

Snapshot(keys, bond, treasury) ==
    [k \in keys |-> IF k = "bond" THEN bond
                    ELSE IF k = "cds_curve" THEN 1
                    ELSE treasury]

Init ==
    /\ \E curve \in Curves(MaxNodes) : dicts = <<curve>>
    /\ \E keys \in KeySets, bond \in Bonds, treasury \in TreasuryCurves :
          market_data = Snapshot(keys, bond, treasury)
    /\ z_solved = 0
    /\ ytm_solved = 0
    /\ integration_step \in
          IF /\ RequiredKeys \subseteq DOMAIN market_data
             /\ market_data["treasury_curve"] # << >>
             /\ "recovery_rate" \in DOMAIN market_data["bond"]
             /\ market_data["bond"]["recovery_rate"] = 40
             /\ \A k \in DOMAIN dicts[1] : dicts[1][k][2] = 80
          THEN IntegrationSteps
          ELSE {QUARTERLY_STEP}
    /\ pc = "start"
    /\ exc = "none"
    /\ engine_cds = 0
    /\ recovery = 0
    /\ hazard_rates = << >>
    /\ node = 0
    /\ nfev = 0
    /\ log = {}
    /\ result = NoResult
    /\ apc = "none"
    /\ analysis = NoAnalysis
    /\ spread_shocks = << >>
    /\ shock_ix = 0
    /\ base_cds = 0
    /\ original_curve = 0
    /\ results = << >>
    /\ pre_curve = << >>
    /\ provider = NoProvider

Next ==
    \/ Construct
    \/ BootstrapFirst
    \/ SolveStart
    \/ \E lambda_current \in SolverValues \union {hazard_rates[t] : t \in DOMAIN hazard_rates} :
          ObjectiveEval(lambda_current)
    \/ \E x \in SolverValues, fvec \in ResidualValues : SolveReturn(x, fvec)
    \/ \E t \in Times : SurvivalProb(t)

Spec == Init /\ [][Next]_vars

-----------------------------------------------------------------------------
(* SyntheticPricer: pure parts *)

(* bond.get(key, default) *)
BondGet(bond, key, default) == IF key \in DOMAIN bond THEN bond[key] ELSE default

(* The interpolation loop of _get_risk_free_rate from index i on *)
RECURSIVE interpolate(_, _, _, _)
interpolate(rf_curve, st, i, t) ==
    IF i >= Len(st) THEN Get(rf_curve, st[Len(st)]) * MilliPerBp
    ELSE IF st[i] <= t /\ t <= st[i + 1]
         THEN LET r1 == Get(rf_curve, st[i])
                  r2 == Get(rf_curve, st[i + 1])
              IN  r1 * MilliPerBp
                      + ((r2 - r1) * MilliPerBp * (t - st[i])) \div (st[i + 1] - st[i])
         ELSE interpolate(rf_curve, st, i + 1, t)

get_risk_free_rate_insertion_order(rf_curve, t) ==
    LET st == KeyList(rf_curve)
    IN  IF t <= st[1] THEN Get(rf_curve, st[1]) * MilliPerBp
        ELSE IF t >= st[Len(st)] THEN Get(rf_curve, st[Len(st)]) * MilliPerBp
        ELSE interpolate(rf_curve, st, 1, t)

(* _get_risk_free_rate(t) over a non-empty curve, in 1/1000 bp; on an      *)
(* empty curve sorted_tenors[0] raises IndexError, which the callers model *)
_get_risk_free_rate(rf_curve, t) ==
    LET st == sorted(Keys(rf_curve))
    IN  IF t <= st[1] THEN Get(rf_curve, st[1]) * MilliPerBp
        ELSE IF t >= st[Len(st)] THEN Get(rf_curve, st[Len(st)]) * MilliPerBp
        ELSE interpolate(rf_curve, st, 1, t)

(* np.isclose(a, b) of two times: |a - b| <= atol + rtol * |b| with        *)
(* atol = 1e-8 (years) and rtol = 1e-5                                     *)
isclose(a, b) == Abs(a - b) <= (TimePerYear + 1000 * Abs(b)) \div 100000000

(* The payment times of line 86 *)
payment_times(bond) ==
    LET payment_interval == TimePerYear \div BondGet(bond, "frequency", 2)
    IN  arange(payment_interval, bond["years_to_maturity"] + payment_interval,
               payment_interval)

(* discount_factor = np.exp(-rf_rate * t), line 101: the model carries the *)
(* exponent rf_rate * t, in 1/1000 bp x quarter-years                      *)
discount_factor(rf_rate, t) == rf_rate * t

(* pv = payment * survival_prob * discount_factor, line 107: with          *)
(* survival_prob = exp(-H) and discount_factor = exp(-D) the product is    *)
(* payment * exp(-(D + H)); the model carries the payment and the          *)
(* exponent, in the units of D (one unit of H is HazardExponent units)     *)
HazardExponent == (MilliPerBp * BpsPerUnit) \div HazardScale

present_value_without_survival(payment, survival, discount) ==
    [Payment |-> payment, Exponent |-> discount]

present_value(payment, survival, discount) ==
    [Payment |-> payment, Exponent |-> discount + HazardExponent * survival]

(* _calculate_accrued_interest(), lines 134-142 *)
_calculate_accrued_interest == 0

(* The rows of the cash-flow schedule, lines 88-120: time, payment, the    *)
(* rate looked up, the discount factor, the survival probability and the   *)
(* present value; money in 1/MoneyScale                                    *)
cash_flows(bond, face_value, rf_curve, hr) ==
    LET times == payment_times(bond)
        coupon_payment == (bond["coupon"] * face_value) \div BondGet(bond, "frequency", 2)
    IN  [k \in DOMAIN times |->
            LET t == times[k]
                is_maturity == isclose(t, times[Len(times)])
                principal == IF is_maturity THEN face_value * MoneyScale ELSE 0
                rf_rate == _get_risk_free_rate(rf_curve, t)
            IN  [Time |-> t,
                 Payment |-> coupon_payment + principal,
                 Coupon |-> coupon_payment,
                 Principal |-> principal,
                 Risk_Free_Rate |-> rf_rate,
                 Discount_Factor |-> discount_factor(rf_rate, t),
                 Survival_Prob |-> survival_prob(hr, t),
                 PV |-> present_value(coupon_payment + principal, survival_prob(hr, t),
                                      discount_factor(rf_rate, t))]]

(* A price handed to calculate_duration or calculate_convexity: the        *)
(* amount given, in 1/MoneyScale, or for None the synthetic price of line  *)
(* 156 (254), a sum of present values carried as the sequence of its terms *)
price_or_synthetic(price, rows) ==
    IF price = None
    THEN [synthetic |-> TRUE, amount |-> 0, total_pv |-> [k \in DOMAIN rows |-> rows[k].PV]]
    ELSE [synthetic |-> FALSE, amount |-> price[1], total_pv |-> << >>]

(* x > 0 for a sum of present values with no negative payment: some        *)
(* payment is positive                                                     *)
sum_positive(terms) == \E k \in DOMAIN terms : terms[k].Payment > 0

price_positive(p) == IF p.synthetic THEN sum_positive(p.total_pv) ELSE p.amount > 0

(* calculate_duration(price), lines 145-192, with ytm the value            *)
(* calculate_ytm(price) returns.  The sums are carried as the sequences of *)
(* their terms, a term of weighted_pv_sum being t * pv; the quotients are  *)
(* carried as their operands:                                              *)
(*   macaulay_duration = weighted_pv_sum / pv_sum if pv_sum > 0 else 0     *)
(*   modified_duration = macaulay_duration / (1 + ytm / frequency)         *)
(*   dv01 = modified_duration * price / 10000                              *)
calculate_duration_annual_yield(bond, face_value, rf_curve, hr, price, ytm) ==
    LET rows == cash_flows(bond, face_value, rf_curve, hr)
        p == price_or_synthetic(price, rows)
        pv_sum == [k \in DOMAIN rows |-> rows[k].PV]
        macaulay_duration ==
            [nonzero |-> sum_positive(pv_sum),
             weighted_pv_sum |-> [k \in DOMAIN rows |->
                                     [Weight |-> rows[k].Time, PV |-> rows[k].PV]],
             pv_sum |-> pv_sum]
        modified_duration ==
            [macaulay_duration |-> macaulay_duration, ytm_price |-> p, ytm |-> ytm,
             frequency |-> 1]
    IN  [macaulay_duration |-> macaulay_duration,
         modified_duration |-> modified_duration,
         dv01 |-> [modified_duration |-> modified_duration, price |-> p,
                   divisor |-> BpsPerUnit]]

calculate_duration(bond, face_value, rf_curve, hr, price, ytm) ==
    LET rows == cash_flows(bond, face_value, rf_curve, hr)
        p == price_or_synthetic(price, rows)
        pv_sum == [k \in DOMAIN rows |-> rows[k].PV]
        macaulay_duration ==
            [nonzero |-> sum_positive(pv_sum),
             weighted_pv_sum |-> [k \in DOMAIN rows |->
                                     [Weight |-> rows[k].Time, PV |-> rows[k].PV]],
             pv_sum |-> pv_sum]
        modified_duration ==
            [macaulay_duration |-> macaulay_duration, ytm_price |-> p, ytm |-> ytm,
             frequency |-> BondGet(bond, "frequency", 2)]
    IN  [macaulay_duration |-> macaulay_duration,
         modified_duration |-> modified_duration,
         dv01 |-> [modified_duration |-> modified_duration, price |-> p,
                   divisor |-> BpsPerUnit]]

(* calculate_convexity(price), lines 243-279: a term of convexity_sum is   *)
(* t * (t + payment_interval) * pv, the weight in quarter-years squared;   *)
(*   convexity = convexity_sum / (price * frequency ** 2) if price > 0     *)
(*               else 0                                                    *)
calculate_convexity(bond, face_value, rf_curve, hr, price) ==
    LET rows == cash_flows(bond, face_value, rf_curve, hr)
        p == price_or_synthetic(price, rows)
        frequency == BondGet(bond, "frequency", 2)
        payment_interval == TimePerYear \div frequency
    IN  [nonzero |-> price_positive(p),
         convexity_sum |-> [k \in DOMAIN rows |->
                               [Weight |-> rows[k].Time * (rows[k].Time + payment_interval),
                                PV |-> rows[k].PV]],
         price |-> p,
         frequency_squared |-> frequency * frequency]

(* calculate_ytm, lines 194-241.  The prices and the derivative of an      *)
(* iteration are floats the model does not compute: an iteration is given  *)
(* the outcome of the two tests of lines 227 and 234 and the iterate of    *)
(* line 237.                                                               *)
max_iter == 100

(* Lines 220-223: the initial guess is the coupon rate *)
ytm_start(bond) ==
    [op |-> "calculate_ytm", status |-> "loop", iterations |-> 0,
     ytm_guess |-> bond["coupon"] * MilliPerBp, evaluated |-> bond["coupon"] * MilliPerBp,
     within_tolerance |-> FALSE, flat |-> FALSE, warned |-> FALSE]

(* One pass of the loop body, lines 225-237, and the warning and return of *)
(* lines 239-240 when the loop ends; the value returned is ytm_guess       *)
ytm_iteration_extra_pass(st, within_tolerance, flat, next_guess) ==
    LET n == st.iterations + 1
        pass == [st EXCEPT !.iterations = n, !.evaluated = st.ytm_guess,
                           !.within_tolerance = within_tolerance,
                           !.flat = ~within_tolerance /\ flat]
    IN  IF within_tolerance THEN [pass EXCEPT !.status = "returned"]
        ELSE IF flat THEN [pass EXCEPT !.status = "returned", !.warned = TRUE]
        ELSE IF n = max_iter + 1
             THEN [pass EXCEPT !.ytm_guess = next_guess, !.status = "returned",
                               !.warned = TRUE]
             ELSE [pass EXCEPT !.ytm_guess = next_guess]

ytm_iteration(st, within_tolerance, flat, next_guess) ==
    LET n == st.iterations + 1
        pass == [st EXCEPT !.iterations = n, !.evaluated = st.ytm_guess,
                           !.within_tolerance = within_tolerance,
                           !.flat = ~within_tolerance /\ flat]
    IN  IF within_tolerance THEN [pass EXCEPT !.status = "returned"]
        ELSE IF flat THEN [pass EXCEPT !.status = "returned", !.warned = TRUE]
        ELSE IF n = max_iter
             THEN [pass EXCEPT !.ytm_guess = next_guess, !.status = "returned",
                               !.warned = TRUE]
             ELSE [pass EXCEPT !.ytm_guess = next_guess]

-----------------------------------------------------------------------------
(* SyntheticPricer: operations on a pricer built over the constructed      *)
(* engine and the snapshot                                                 *)

(* calculate_synthetic_price(include_accrued): the schedule it returns and *)
(* the price, total_pv: a sum of present values, carried as the sequence   *)
(* of its terms, plus the accrued interest added at lines 125-127          *)
CalculateSyntheticPrice(include_accrued) ==
    /\ pc = "done"
    /\ ~InCall
    /\ LET bond == market_data["bond"]
           rows == cash_flows(bond, BondGet(bond, "face_value", 100),
                              market_data["treasury_curve"], hazard_rates)
       IN  result' = [op |-> "calculate_synthetic_price",
                      include_accrued |-> include_accrued,
                      schedule |-> rows,
                      total_pv |-> [k \in DOMAIN rows |-> rows[k].PV],
                      accrued |-> IF include_accrued THEN _calculate_accrued_interest ELSE 0]
    /\ UNCHANGED <<dicts, market_data, z_solved, ytm_solved, integration_step, provider, pc, exc, engine_cds, recovery,
                   hazard_rates, node, nfev, log>>
    /\ UNCHANGED analyzerVars

(* calculate_duration(price): the calculate_ytm call inside it returns ytm *)
CalculateDuration(price, ytm) ==
    /\ pc = "done"
    /\ ~InCall
    /\ LET bond == market_data["bond"]
       IN  result' = [op |-> "calculate_duration", price |-> price,
                      value |-> calculate_duration(bond, BondGet(bond, "face_value", 100),
                                                   market_data["treasury_curve"],
                                                   hazard_rates, price, ytm)]
    /\ UNCHANGED <<dicts, market_data, z_solved, ytm_solved, integration_step, provider, pc, exc, engine_cds, recovery,
                   hazard_rates, node, nfev, log>>
    /\ UNCHANGED analyzerVars

(* calculate_convexity(price) *)
CalculateConvexity(price) ==
    /\ pc = "done"
    /\ ~InCall
    /\ LET bond == market_data["bond"]
       IN  result' = [op |-> "calculate_convexity", price |-> price,
                      value |-> calculate_convexity(bond, BondGet(bond, "face_value", 100),
                                                    market_data["treasury_curve"],
                                                    hazard_rates, price)]
    /\ UNCHANGED <<dicts, market_data, z_solved, ytm_solved, integration_step, provider, pc, exc, engine_cds, recovery,
                   hazard_rates, node, nfev, log>>
    /\ UNCHANGED analyzerVars

(* calculate_ytm(price) is entered *)
CalculateYtm ==
    /\ pc = "done"
    /\ ~InCall
    /\ result' = ytm_start(market_data["bond"])
    /\ UNCHANGED <<dicts, market_data, z_solved, ytm_solved, integration_step, provider, pc, exc, engine_cds, recovery,
                   hazard_rates, node, nfev, log>>
    /\ UNCHANGED analyzerVars

(* One pass of its Newton loop *)
YtmIterate(within_tolerance, flat, next_guess) ==
    /\ pc = "done"
    /\ InCall
    /\ result' = ytm_iteration(result, within_tolerance, flat, next_guess)
    /\ UNCHANGED <<dicts, market_data, z_solved, ytm_solved, integration_step, provider, pc, exc, engine_cds, recovery,
                   hazard_rates, node, nfev, log>>
    /\ UNCHANGED analyzerVars

-----------------------------------------------------------------------------
(* BasisAnalyzer: pure parts *)

ShockValues == {-50, 25}
DefaultShocks == <<-50, -25, 0, 25, 50, 100>>
BasisSpreads == {80, 110}
Maturities == {3, 8, 10}
ZSpreadValues == {101000, 100000, 90000, 80004, 80000, 79996, 70000, 60000, 59000, 2000000}
PriceLevels == {-101000, -100000, -90000, -80000, -70000, -60000, -59000,
                -2000000, -2500000, 1200000}
YtmValues == {2950000, -800000}

(* min(cds_tenors, key=lambda x: abs(x - bond_maturity)): the scan keeps   *)
(* the first of the minimal elements                                       *)
RECURSIVE min_scan_last(_, _, _, _)
min_scan_last(xs, k, best, bond_maturity) ==
    IF k > Len(xs) THEN best
    ELSE min_scan_last(xs, k + 1,
                       IF Abs(xs[k] - bond_maturity) <= Abs(best - bond_maturity)
                       THEN xs[k] ELSE best,
                       bond_maturity)

RECURSIVE min_scan(_, _, _, _)
min_scan(xs, k, best, bond_maturity) ==
    IF k > Len(xs) THEN best
    ELSE min_scan(xs, k + 1,
                  IF Abs(xs[k] - bond_maturity) < Abs(best - bond_maturity)
                  THEN xs[k] ELSE best,
                  bond_maturity)

closest_tenor(cds_tenors, bond_maturity) == min_scan(cds_tenors, 2, cds_tenors[1], bond_maturity)

(* The if/elif chain of analyze, lines 159-173; basis in 1/1000 bp *)
trade_signal_closed_at_strong(basis) ==
    IF basis <= -StrongBasisBps * MilliPerBp THEN "Strong Negative Basis"
    ELSE IF basis < 0 THEN "Negative Basis"
    ELSE IF basis >= StrongBasisBps * MilliPerBp THEN "Strong Positive Basis"
    ELSE IF basis > 0 THEN "Positive Basis"
    ELSE "Neutral Basis"

trade_signal(basis) ==
    IF basis < -StrongBasisBps * MilliPerBp THEN "Strong Negative Basis"
    ELSE IF basis < 0 THEN "Negative Basis"
    ELSE IF basis > StrongBasisBps * MilliPerBp THEN "Strong Positive Basis"
    ELSE IF basis > 0 THEN "Positive Basis"
    ELSE "Neutral Basis"

(* round(x, 2) of a value in 1/1000 bp: the result in 1/100 bp, ties to even *)
round2(x) ==
    LET q == x \div 10
        r == x % 10
    IN  IF r < 5 THEN q
        ELSE IF r > 5 THEN q + 1
        ELSE IF q % 2 = 0 THEN q ELSE q + 1

(* calculate_z_spread, lines 42-101.  The search interval of line 90 and  *)
(* the default tolerance of line 42, in 1/1000 bp.                         *)
Z_LOW == -1000000
Z_HIGH == 2000000
loose_tolerance == 10 * 100
tolerance == 10

(* price_with_spread(z), lines 68-82, as a price level *)
price_with_spread(z) == -z

(* objective(z), lines 84-86 *)
objective(z, target_price) == price_with_spread(z) - target_price

(* scipy.optimize.brentq(objective, a, b, xtol=xtol): it raises ValueError *)
(* when objective(a) and objective(b) have the same sign; otherwise it     *)
(* returns an x of [a, b] with a sign change of the objective within xtol  *)
(* of x.  brentq is deterministic: z_solved is the one it returns.         *)
brentq_raises(target_price, a, b) ==
    Sign(objective(a, target_price)) * Sign(objective(b, target_price)) > 0

brentq_roots(target_price, a, b, xtol) ==
    {x \in ZSpreadValues :
        /\ a <= x
        /\ x <= b
        /\ Sign(objective(x - xtol, target_price))
               * Sign(objective(x + xtol, target_price)) <= 0}

(* The try/except of lines 88-101: what calculate_z_spread raises, whether *)
(* it returns the bracketed root, and the value it returns.  An empty      *)
(* treasury curve makes the objective raise IndexError, which the          *)
(* except ValueError clause lets through.                                  *)
z_spread_without_fallback ==
    LET bond == market_data["bond"]
    IN  IF market_data["treasury_curve"] = << >>
        THEN [exc |-> "IndexError", bracketed |-> FALSE, value |-> 0]
        ELSE IF brentq_raises(bond["price"], Z_LOW, Z_HIGH)
        THEN [exc |-> "ValueError", bracketed |-> FALSE, value |-> 0]
        ELSE [exc |-> "none", bracketed |-> TRUE, value |-> z_solved]

calculate_z_spread ==
    LET bond == market_data["bond"]
    IN  IF market_data["treasury_curve"] = << >>
        THEN [exc |-> "IndexError", bracketed |-> FALSE, value |-> 0]
        ELSE IF brentq_raises(bond["price"], Z_LOW, Z_HIGH)
        THEN [exc |-> "none", bracketed |-> FALSE,
              value |-> ytm_solved - _get_risk_free_rate(market_data["treasury_curve"],
                                                         bond["years_to_maturity"])]
        ELSE [exc |-> "none", bracketed |-> TRUE, value |-> z_solved]

(* Line 156, basis = cds_spread - z_spread_bps, subtracts a float from the *)
(* spread, an int in the snapshots of the data provider: the conversion    *)
(* of an int above the largest float raises OverflowError.  FLOAT_MAX      *)
(* stands for sys.float_info.max (about 1.8e308) on the model's scale:     *)
(* every spread of the input sets is below it, HugeShock is above it.      *)
FLOAT_MAX == 1000 * 100
HugeShock == 2000 * 100

float_overflows(n) == Abs(n) > FLOAT_MAX

(* analyze(reference_cds_tenor), lines 141-198: its locals and the result  *)
(* dict (the fields that depend on the spread curve and the Z-spread)      *)
analyze(reference_cds_tenor) ==
    LET z_spread == calculate_z_spread
        z_spread_bps == z_spread.value
        bond_maturity == market_data["bond"]["years_to_maturity"]
        curve == dicts[market_data["cds_curve"]]
        ref == IF reference_cds_tenor = None
               THEN closest_tenor(KeyList(curve), bond_maturity)
               ELSE reference_cds_tenor[1]
        cds_spread == GetOr(curve, ref, 0)
        basis == cds_spread * MilliPerBp - z_spread_bps
    IN  [called |-> TRUE,
         exc |-> IF z_spread.exc # "none" THEN z_spread.exc
                 ELSE IF float_overflows(cds_spread) THEN "OverflowError"
                 ELSE "none",
         bracketed |-> z_spread.bracketed,
         reference_cds_tenor |-> reference_cds_tenor,
         z_spread_bps |-> z_spread_bps,
         basis |-> basis,
         results |-> [Z_Spread_bps |-> round2(z_spread_bps),
                      CDS_Spread_bps |-> cds_spread,
                      CDS_Tenor |-> ref,
                      Basis_bps |-> round2(basis),
                      Trade_Signal |-> trade_signal(basis),
                      Bond_Maturity |-> bond_maturity]]

-----------------------------------------------------------------------------
(* BasisAnalyzer: operations *)

Analyze(reference_cds_tenor) ==
    /\ apc \in {"idle", "returned"}
    /\ ~InCall
    /\ analysis' = analyze(reference_cds_tenor)
    /\ UNCHANGED <<dicts, market_data, z_solved, ytm_solved, integration_step, provider, apc, spread_shocks, shock_ix, base_cds,
                   original_curve, results, pre_curve>>
    /\ UNCHANGED engineVars

(* stress_test_basis, lines 288-293: the default shocks and the base analysis *)
StressStart(shocks) ==
    /\ apc = "idle"
    /\ ~InCall
    /\ spread_shocks' = IF shocks = None THEN DefaultShocks ELSE shocks[1]
    /\ results' = << >>
    /\ analysis' = analyze(None)
    /\ base_cds' = analyze(None).results.CDS_Spread_bps
    /\ shock_ix' = 1
    /\ pre_curve' = dicts[market_data["cds_curve"]]
    /\ apc' = IF analyze(None).exc # "none" THEN "raised" ELSE "loop"
    /\ UNCHANGED <<dicts, market_data, z_solved, ytm_solved, integration_step, provider, original_curve>>
    /\ UNCHANGED engineVars

(* Lines 297-300: the copy, then every tenor of the dict set in place *)
StressShockNoCopy ==
    /\ apc = "loop"
    /\ shock_ix <= Len(spread_shocks)
    /\ LET cur == market_data["cds_curve"]
           shock == spread_shocks[shock_ix]
       IN  /\ original_curve' = cur
           /\ dicts' = [dicts EXCEPT ![cur] =
                           [k \in DOMAIN dicts[cur] |-> <<dicts[cur][k][1], base_cds + shock>>]]
    /\ apc' = "shocked"
    /\ UNCHANGED <<market_data, z_solved, ytm_solved, integration_step, provider, analysis, spread_shocks, shock_ix, base_cds,
                   results, pre_curve>>
    /\ UNCHANGED engineVars

StressShockParallel ==
    /\ apc = "loop"
    /\ shock_ix <= Len(spread_shocks)
    /\ LET cur == market_data["cds_curve"]
           shock == spread_shocks[shock_ix]
       IN  /\ original_curve' = Len(dicts) + 1
           /\ dicts' = Append([dicts EXCEPT ![cur] =
                                  [k \in DOMAIN dicts[cur] |->
                                      <<dicts[cur][k][1], dicts[cur][k][2] + shock>>]],
                              dicts[cur])
    /\ apc' = "shocked"
    /\ UNCHANGED <<market_data, z_solved, ytm_solved, integration_step, provider, analysis, spread_shocks, shock_ix, base_cds,
                   results, pre_curve>>
    /\ UNCHANGED engineVars

StressShock ==
    /\ apc = "loop"
    /\ shock_ix <= Len(spread_shocks)
    /\ LET cur == market_data["cds_curve"]
           shock == spread_shocks[shock_ix]
       IN  /\ original_curve' = Len(dicts) + 1
           /\ dicts' = Append([dicts EXCEPT ![cur] =
                                  [k \in DOMAIN dicts[cur] |->
                                      <<dicts[cur][k][1], base_cds + shock>>]],
                              dicts[cur])
    /\ apc' = "shocked"
    /\ UNCHANGED <<market_data, z_solved, ytm_solved, integration_step, provider, analysis, spread_shocks, shock_ix, base_cds,
                   results, pre_curve>>
    /\ UNCHANGED engineVars

(* Lines 303-311: the recomputation and the row.  Nothing catches an       *)
(* exception of analyze(): it leaves stress_test_basis at line 303.        *)
StressAnalyze ==
    /\ apc = "shocked"
    /\ LET shock == spread_shocks[shock_ix]
           shocked_analysis == analyze(None)
       IN  /\ analysis' = shocked_analysis
           /\ IF shocked_analysis.exc # "none"
              THEN /\ results' = results
                   /\ apc' = "raised"
              ELSE /\ results' = Append(results,
                                [CDS_Shock_bps |-> shock,
                                 New_CDS_Spread |-> base_cds + shock,
                                 Z_Spread_bps |-> shocked_analysis.results.Z_Spread_bps,
                                 Basis_bps |-> shocked_analysis.results.Basis_bps,
                                 Trade_Signal |-> shocked_analysis.results.Trade_Signal])
                   /\ apc' = "analyzed"
    /\ UNCHANGED <<dicts, market_data, z_solved, ytm_solved, integration_step, provider, spread_shocks, shock_ix, base_cds,
                   original_curve, pre_curve>>
    /\ UNCHANGED engineVars

(* Line 314: the key is rebound to the copy; the loop goes on *)
StressRestore ==
    /\ apc = "analyzed"
    /\ market_data' = [market_data EXCEPT !["cds_curve"] = original_curve]
    /\ shock_ix' = shock_ix + 1
    /\ apc' = "loop"
    /\ UNCHANGED <<dicts, z_solved, ytm_solved, integration_step, provider, analysis, spread_shocks, base_cds, original_curve,
                   results, pre_curve>>
    /\ UNCHANGED engineVars

(* Line 316 *)
StressReturn ==
    /\ apc = "loop"
    /\ shock_ix > Len(spread_shocks)
    /\ apc' = "returned"
    /\ UNCHANGED <<dicts, market_data, z_solved, ytm_solved, integration_step, provider, analysis, spread_shocks, shock_ix, base_cds,
                   original_curve, results, pre_curve>>
    /\ UNCHANGED engineVars

-----------------------------------------------------------------------------
(* The analyzer over a snapshot whose engine and pricer are constructed *)

ShockLists == UNION {[1..m -> ShockValues] : m \in 0..MaxShocks}

(* The curve a construction leaves: the first node by the credit triangle, *)
(* the later ones as a converged solve returned them                       *)
ConstructedHazard(curve, R) ==
    LET st == sorted(Keys(curve))
    IN  [t \in Keys(curve) |->
            IF t = st[1]
            THEN credit_triangle(Get(curve, t) * (HazardScale \div BpsPerUnit), R)
            ELSE 15000]

InitBasis ==
    /\ \E curve \in CurvesOver(MaxNodes, BasisSpreads) \ {<< >>} :
          /\ dicts = <<curve>>
          /\ hazard_rates = ConstructedHazard(curve, 40)
          /\ node = Len(curve)
    /\ \E m \in Maturities, price \in PriceLevels :
          market_data = Snapshot(RequiredKeys,
                                 [recovery_rate |-> 40, years_to_maturity |-> m,
                                  coupon |-> 520, price |-> price],
                                 <<<<4, 425>>, <<8, 425>>>>)
    /\ z_solved \in IF brentq_raises(market_data["bond"]["price"], Z_LOW, Z_HIGH)
                    THEN {0}
                    ELSE brentq_roots(market_data["bond"]["price"], Z_LOW, Z_HIGH, tolerance)
    /\ ytm_solved \in IF brentq_raises(market_data["bond"]["price"], Z_LOW, Z_HIGH)
                      THEN YtmValues
                      ELSE {0}
    /\ integration_step = QUARTERLY_STEP
    /\ pc = "done"
    /\ exc = "none"
    /\ engine_cds = 1
    /\ recovery = 40
    /\ nfev = 0
    /\ log = {}
    /\ result = NoResult
    /\ apc = "idle"
    /\ analysis = NoAnalysis
    /\ spread_shocks = << >>
    /\ shock_ix = 0
    /\ base_cds = 0
    /\ original_curve = 0
    /\ results = << >>
    /\ pre_curve = << >>
    /\ provider = NoProvider

NextBasis ==
    \/ \E reference_cds_tenor \in {None} \union {Some(t) : t \in {4, 99}} :
          Analyze(reference_cds_tenor)
    \/ \E shocks \in {None} \union {Some(l) : l \in ShockLists} : StressStart(shocks)
    \/ StressShock
    \/ StressAnalyze
    \/ StressRestore
    \/ StressReturn

SpecBasis == InitBasis /\ [][NextBasis]_vars

-----------------------------------------------------------------------------
(* The constructed engine and the pricer under any sequence of calls *)

PricerCurves == {<<<<4, 80>>>>, <<<<8, 110>>, <<2, 80>>>>}
PricerBonds ==
    LET base == {[recovery_rate |-> 40, years_to_maturity |-> y, coupon |-> c,
                  price |-> -90000] : y \in 1..MaxMaturity, c \in {0, 520}}
    IN  base \union {[recovery_rate |-> b.recovery_rate,
                      years_to_maturity |-> b.years_to_maturity,
                      coupon |-> b.coupon, price |-> b.price,
                      frequency |-> f] : b \in base, f \in {1, 2, 4}}
YieldValues == {450000, 610000}
PriceArgs == {None, Some(945000), Some(0), Some(-10000)}
ForwardTimes == {0, 2, 5, MaxTime}

InitPricer ==
    /\ \E curve \in PricerCurves :
          /\ dicts = <<curve>>
          /\ hazard_rates = ConstructedHazard(curve, 40)
          /\ node = Len(curve)
    /\ \E bond \in PricerBonds :
          market_data = Snapshot(RequiredKeys, bond, <<<<8, 440>>, <<2, 400>>>>)
    /\ z_solved = 90000
    /\ ytm_solved = 0
    /\ integration_step = QUARTERLY_STEP
    /\ pc = "done"
    /\ exc = "none"
    /\ engine_cds = 1
    /\ recovery = 40
    /\ nfev = 0
    /\ log = {}
    /\ result = NoResult
    /\ apc = "idle"
    /\ analysis = NoAnalysis
    /\ spread_shocks = << >>
    /\ shock_ix = 0
    /\ base_cds = 0
    /\ original_curve = 0
    /\ results = << >>
    /\ pre_curve = << >>
    /\ provider = NoProvider

NextPricer ==
    \/ \E t \in Times : SurvivalProb(t)
    \/ \E t1, t2 \in ForwardTimes : ForwardHazard(t1, t2)
    \/ GetCurveSummary
    \/ \E include_accrued \in BOOLEAN : CalculateSyntheticPrice(include_accrued)
    \/ CalculateYtm
    \/ \E within_tolerance, flat \in BOOLEAN, next_guess \in YieldValues :
          YtmIterate(within_tolerance, flat, next_guess)

SpecPricer == InitPricer /\ [][NextPricer]_vars

(* The pricer's sensitivities over the same engines and bonds *)
NextSensitivities ==
    \/ \E include_accrued \in BOOLEAN : CalculateSyntheticPrice(include_accrued)
    \/ \E price \in PriceArgs, ytm \in YieldValues : CalculateDuration(price, ytm)
    \/ \E price \in PriceArgs : CalculateConvexity(price)

SpecSensitivities == InitPricer /\ [][NextSensitivities]_vars

(* The rate lookups of the engine and of the pricer, which hold the same   *)
(* treasury_curve object of the snapshot, over any curve                   *)
MaxRateNodes == 3
RateValues == {400, 425, 440}
RateCurves ==
    {d \in UNION {[1..m -> TenorSet \X RateValues] : m \in 0..MaxRateNodes} : IsCurve(d)}

(* engine._get_risk_free_rate(t): sorted_tenors[0] of an empty curve is an *)
(* IndexError                                                              *)
EngineRate(t) ==
    /\ pc = "done"
    /\ ~InCall
    /\ LET rf_curve == market_data["treasury_curve"]
       IN  result' = IF rf_curve = << >>
                     THEN [op |-> "HazardRateEngine._get_risk_free_rate", t |-> t,
                           exc |-> "IndexError", value |-> 0]
                     ELSE [op |-> "HazardRateEngine._get_risk_free_rate", t |-> t,
                           exc |-> "none",
                           value |-> HazardRateEngine_get_risk_free_rate(rf_curve, t)]
    /\ UNCHANGED <<dicts, market_data, z_solved, ytm_solved, integration_step, provider, pc, exc, engine_cds, recovery,
                   hazard_rates, node, nfev, log>>
    /\ UNCHANGED analyzerVars

(* pricer._get_risk_free_rate(t) *)
PricerRate(t) ==
    /\ pc = "done"
    /\ ~InCall
    /\ LET rf_curve == market_data["treasury_curve"]
       IN  result' = IF rf_curve = << >>
                     THEN [op |-> "SyntheticPricer._get_risk_free_rate", t |-> t,
                           exc |-> "IndexError", value |-> 0]
                     ELSE [op |-> "SyntheticPricer._get_risk_free_rate", t |-> t,
                           exc |-> "none", value |-> _get_risk_free_rate(rf_curve, t)]
    /\ UNCHANGED <<dicts, market_data, z_solved, ytm_solved, integration_step, provider, pc, exc, engine_cds, recovery,
                   hazard_rates, node, nfev, log>>
    /\ UNCHANGED analyzerVars

InitRates ==
    /\ dicts = <<<<<<4, 80>>>>>>
    /\ hazard_rates = ConstructedHazard(dicts[1], 40)
    /\ node = 1
    /\ \E rf_curve \in RateCurves :
          market_data = Snapshot(RequiredKeys,
                                 [recovery_rate |-> 40, years_to_maturity |-> 4,
                                  coupon |-> 520, price |-> -90000],
                                 rf_curve)
    /\ z_solved = 90000
    /\ ytm_solved = 0
    /\ integration_step = QUARTERLY_STEP
    /\ pc = "done"
    /\ exc = "none"
    /\ engine_cds = 1
    /\ recovery = 40
    /\ nfev = 0
    /\ log = {}
    /\ result = NoResult
    /\ apc = "idle"
    /\ analysis = NoAnalysis
    /\ spread_shocks = << >>
    /\ shock_ix = 0
    /\ base_cds = 0
    /\ original_curve = 0
    /\ results = << >>
    /\ pre_curve = << >>
    /\ provider = NoProvider

NextRates ==
    \/ \E t \in Times : EngineRate(t)
    \/ \E t \in Times : PricerRate(t)

SpecRates == InitRates /\ [][NextRates]_vars

(* The whole pipeline after construction: engine, pricer and analyzer calls *)
InitPipeline ==
    /\ InitPricer
    /\ market_data["bond"]["years_to_maturity"] = 3
    /\ market_data["bond"]["coupon"] = 520
    /\ "frequency" \notin DOMAIN market_data["bond"]

NextPipeline ==
    \/ \E t \in {1, MaxTime} : SurvivalProb(t)
    \/ \E t1, t2 \in {0, MaxTime} : ForwardHazard(t1, t2)
    \/ GetCurveSummary
    \/ \E include_accrued \in BOOLEAN : CalculateSyntheticPrice(include_accrued)
    \/ CalculateYtm
    \/ \E within_tolerance, flat \in BOOLEAN, next_guess \in YieldValues :
          YtmIterate(within_tolerance, flat, next_guess)
    \/ \E ytm \in YieldValues : CalculateDuration(None, ytm)
    \/ CalculateConvexity(None)
    \/ Analyze(None)
    \/ \E shock \in ShockValues \union {HugeShock} : StressStart(Some(<<shock>>))
    \/ StressShock
    \/ StressAnalyze
    \/ StressRestore
    \/ StressReturn

SpecPipeline == InitPipeline /\ [][NextPipeline]_vars

-----------------------------------------------------------------------------
(* CreditDataProvider in cached mode (src/src/data_provider.py).  A dict   *)
(* key is carried with its Python type: the tenors of the curves are       *)
(* floats, the field names strings.                                        *)

FloatKey(x) == [type |-> "float", repr |-> x]
StrKey(x) == [type |-> "str", repr |-> x]

(* The key of a JSON object is a string: json.dump writes str(key) for a   *)
(* float key, and json.load returns the keys as strings                    *)
json_key(k) == StrKey(k.repr)

(* json.dump(data, f) followed by json.load(f) of a snapshot: the values   *)
(* (numbers, strings) come back as they were, the keys as strings          *)
json_round_trip(data) ==
    [field \in DOMAIN data |->
        IF field \in {"cds_curve", "treasury_curve"}
        THEN [k \in DOMAIN data[field] |->
                 <<json_key(data[field][k][1]), data[field][k][2]>>]
        ELSE data[field]]

(* _get_dummy_data, lines 101-133, with the treasury curve _get_live_data  *)
(* puts in its place (lines 152-167); tenors in quarter-years              *)
FetchedTreasuryCurves ==
    {<<<<FloatKey(1), 495>>, <<FloatKey(8), 460>>, <<FloatKey(40), 425>>>>,
     <<<<FloatKey(1), 450>>, <<FloatKey(8), 450>>, <<FloatKey(40), 450>>>>}

_get_live_data(treasury_data) ==
    [bond |-> [price |-> 945000, coupon |-> 520, years_to_maturity |-> 28,
               recovery_rate |-> 40, face_value |-> 100, frequency |-> 2],
     cds_curve |-> <<<<FloatKey(4), 80>>, <<FloatKey(12), 110>>, <<FloatKey(20), 140>>,
                     <<FloatKey(28), 160>>, <<FloatKey(40), 180>>>>,
     treasury_curve |-> treasury_data,
     metadata |-> [source |-> "live_partial"]]

CacheTtls == {1, 2}

(* The clock: time passes between the calls *)
Tick ==
    /\ provider.mode = "cached"
    /\ provider.now < MaxClock
    /\ provider' = [provider EXCEPT !.now = provider.now + 1]
    /\ UNCHANGED <<dicts, market_data, z_solved, ytm_solved, integration_step>>
    /\ UNCHANGED engineVars
    /\ UNCHANGED analyzerVars

(* get_market_snapshot(ticker) in cached mode, lines 210-240: a fresh file *)
(* is loaded and returned; otherwise the data is fetched (treasury_data is *)
(* what the market gives at that moment), written to the file and          *)
(* returned.  The file holds the JSON text, carried as the object it       *)
(* parses to.                                                              *)
GetMarketSnapshot(treasury_data) ==
    /\ provider.mode = "cached"
    /\ IF /\ provider.cache_file # None
          /\ provider.now - provider.cache_file[1].st_mtime < provider.cache_ttl
       THEN provider' = [provider EXCEPT !.returned = Some(provider.cache_file[1].content),
                                         !.hit = TRUE]
       ELSE /\ provider.fetches < MaxFetches
            /\ LET data == _get_live_data(treasury_data)
               IN  provider' = [provider EXCEPT
                                   !.fetches = provider.fetches + 1,
                                   !.fetched = Some(data),
                                   !.cache_file = Some([st_mtime |-> provider.now,
                                                        content |-> json_round_trip(data)]),
                                   !.returned = Some(data),
                                   !.hit = FALSE]
    /\ UNCHANGED <<dicts, market_data, z_solved, ytm_solved, integration_step>>
    /\ UNCHANGED engineVars
    /\ UNCHANGED analyzerVars

(* clear_cache(ticker), lines 249-253 *)
ClearCache ==
    /\ provider.mode = "cached"
    /\ provider' = [provider EXCEPT !.cache_file = None]
    /\ UNCHANGED <<dicts, market_data, z_solved, ytm_solved, integration_step>>
    /\ UNCHANGED engineVars
    /\ UNCHANGED analyzerVars

(* CreditDataProvider(mode='cached', cache_ttl=...) over an empty cache    *)
(* directory                                                               *)
InitCache ==
    /\ dicts = <<<<<<4, 80>>>>>>
    /\ market_data = Snapshot(RequiredKeys, [recovery_rate |-> 40, years_to_maturity |-> 8],
                              <<<<4, 425>>, <<8, 425>>>>)
    /\ z_solved = 0
    /\ ytm_solved = 0
    /\ integration_step = QUARTERLY_STEP
    /\ pc = "start"
    /\ exc = "none"
    /\ engine_cds = 0
    /\ recovery = 0
    /\ hazard_rates = << >>
    /\ node = 0
    /\ nfev = 0
    /\ log = {}
    /\ result = NoResult
    /\ apc = "none"
    /\ analysis = NoAnalysis
    /\ spread_shocks = << >>
    /\ shock_ix = 0
    /\ base_cds = 0
    /\ original_curve = 0
    /\ results = << >>
    /\ pre_curve = << >>
    /\ \E ttl \in CacheTtls :
          provider = [mode |-> "cached", cache_ttl |-> ttl, now |-> 0, cache_file |-> None,
                      fetches |-> 0, fetched |-> None, returned |-> None, hit |-> FALSE]

NextCache ==
    \/ Tick
    \/ \E treasury_data \in FetchedTreasuryCurves : GetMarketSnapshot(treasury_data)
    \/ ClearCache

SpecCache == InitCache /\ [][NextCache]_vars

-----------------------------------------------------------------------------
(* Properties of HazardRateEngine construction (specification Spec) *)

SnapshotCurve == dicts[market_data["cds_curve"]]

(* The input contract of a snapshot: the required keys, a recovery rate in *)
(* [0,1], a non-empty spread curve with every spread > 0, a non-empty      *)
(* treasury curve                                                          *)
InputContract ==
    /\ RequiredKeys \subseteq DOMAIN market_data
    /\ "recovery_rate" \in DOMAIN market_data["bond"]
    /\ 0 <= market_data["bond"]["recovery_rate"]
    /\ market_data["bond"]["recovery_rate"] <= RecoveryScale
    /\ SnapshotCurve # << >>
    /\ \A k \in DOMAIN SnapshotCurve : SnapshotCurve[k][2] > 0
    /\ market_data["treasury_curve"] # << >>

(* C1: after construction completes for a snapshot of the input contract,  *)
(* every value stored in hazard_rates lies in                              *)
(* [MIN_HAZARD_RATE, MAX_HAZARD_RATE].                                     *)
C1_HazardRatesWithinBounds ==
    (pc = "done" /\ InputContract) =>
        \A t \in DOMAIN hazard_rates :
            MIN_HAZARD_RATE <= hazard_rates[t] /\ hazard_rates[t] <= MAX_HAZARD_RATE

(* C4: a snapshot that lacks a required key, or whose spread curve is      *)
(* empty, or whose recovery rate is outside [0,1], makes construction      *)
(* raise ValueError before any hazard node is computed and before any      *)
(* field of the engine is set.                                             *)
InvalidSnapshot ==
    \/ ~(RequiredKeys \subseteq DOMAIN market_data)
    \/ SnapshotCurve = << >>
    \/ /\ "recovery_rate" \in DOMAIN market_data["bond"]
       /\ \/ market_data["bond"]["recovery_rate"] < 0
          \/ market_data["bond"]["recovery_rate"] > RecoveryScale

C4_InvalidSnapshotRaisesValueError ==
    InvalidSnapshot =>
        \/ pc = "start"
        \/ /\ pc = "raised"
           /\ exc = "ValueError"
           /\ hazard_rates = << >>
           /\ node = 0
           /\ engine_cds = 0

C4_Witness ==
    /\ pc = "raised"
    /\ exc = "ValueError"
    /\ RequiredKeys \subseteq DOMAIN market_data
    /\ Len(SnapshotCurve) = 2
    /\ market_data["bond"]["recovery_rate"] > RecoveryScale

(* C5: a node i > 1 whose solve was logged as failed (error) or as not     *)
(* converged (warning) holds the credit triangle spread_i / (1 - R).       *)
C5_DegradedNodeIsCreditTriangle ==
    InputContract =>
        \A e \in log :
            hazard_rates[e.tenor] =
                (Get(dicts[engine_cds], e.tenor) * 100 * RecoveryScale)
                    \div (RecoveryScale - recovery)

(* C6: for every snapshot of the input contract (recovery rate 1          *)
(* included) construction does not raise, and once it completes the        *)
(* hazard curve has exactly the tenors of the spread curve.                *)
C6_ContractSnapshotConstructs ==
    InputContract =>
        /\ pc # "raised"
        /\ pc = "done" => DOMAIN hazard_rates = Keys(SnapshotCurve)

(* C7: survival_prob(t) is 1.0 (cumulative hazard 0) for t <= 0; for t > 0 *)
(* its cumulative hazard is the sum of lambda_i * (T_i - T_{i-1}) over the *)
(* whole segments ending at or before t, plus lambda_k * (t - T_{k-1}) for *)
(* the segment that contains t, plus lambda_n * (t - T_n) beyond the last  *)
(* tenor T_n.                                                              *)
RECURSIVE SumOver(_, _)
SumOver(S, f) ==
    IF S = {} THEN 0
    ELSE LET x == CHOOSE y \in S : TRUE IN f[x] + SumOver(S \ {x}, f)

PrevTenor(T, t) ==
    IF \E u \in T : u < t
    THEN CHOOSE u \in T : u < t /\ \A v \in T : v < t => v <= u
    ELSE 0

PiecewiseCumulativeHazard(hr, t) ==
    LET T == DOMAIN hr
        last == CHOOSE u \in T : \A v \in T : v <= u
        whole == SumOver({u \in T : u <= t},
                         [u \in T |-> hr[u] * (u - PrevTenor(T, u))])
        partial == IF \E u \in T : PrevTenor(T, u) < t /\ t < u
                   THEN LET u == CHOOSE u \in T : PrevTenor(T, u) < t /\ t < u
                        IN  hr[u] * (t - PrevTenor(T, u))
                   ELSE 0
        beyond == IF t > last THEN hr[last] * (t - last) ELSE 0
    IN  IF t <= 0 THEN 0 ELSE whole + partial + beyond

C7_SurvivalProbIsPiecewiseIntegral ==
    /\ pc = "done" =>
          \A t \in Times :
              survival_prob(hazard_rates, t) = PiecewiseCumulativeHazard(hazard_rates, t)
    /\ result.op = "survival_prob" =>
          result.value = PiecewiseCumulativeHazard(hazard_rates, result.t)

C7_Witness ==
    /\ result.op = "survival_prob"
    /\ node = 2
    /\ \A t \in DOMAIN hazard_rates : result.t > t
    /\ result.value > 0

(* C8: for every constructed engine and all 0 <= t1 < t2,                  *)
(* 1 >= survival_prob(t1) >= survival_prob(t2) >= 0: the cumulative hazard *)
(* is non-negative and non-decreasing.                                     *)
C8_SurvivalMonotone ==
    pc = "done" =>
        \A t1, t2 \in 0..MaxTime :
            t1 < t2 =>
                /\ 0 <= survival_prob(hazard_rates, t1)
                /\ survival_prob(hazard_rates, t1) <= survival_prob(hazard_rates, t2)

(* C9: the hazard of the smallest tenor of the spread curve, whatever the  *)
(* insertion order, is (spread_1 / 10000) / (1 - R) to within 1e-6, it is  *)
(* set without a solver call, and 80 bps at recovery 0.40 gives 0.013333.  *)
FirstTenor == CHOOSE t \in Keys(dicts[engine_cds]) : \A u \in Keys(dicts[engine_cds]) : t <= u

C9_FirstNodeIsCreditTriangle ==
    (pc \in {"bootstrap", "solving", "done"} /\ node >= 1) =>
        LET spread_bps == Get(dicts[engine_cds], FirstTenor)
            lambda_1 == hazard_rates[FirstTenor]
        IN  /\ FirstTenor \in DOMAIN hazard_rates
            /\ Abs(lambda_1 * (RecoveryScale - recovery) - spread_bps * 100 * RecoveryScale)
                   < RecoveryScale - recovery
            /\ (spread_bps = 80 /\ recovery = 40) => lambda_1 = 13333
            /\ (node = 1 /\ pc = "bootstrap") => (nfev = 0 /\ log = {})

C9_Witness ==
    /\ pc = "done"
    /\ node = 2
    /\ dicts[engine_cds][1][1] # FirstTenor
    /\ Get(dicts[engine_cds], FirstTenor) = 80
    /\ recovery = 40
    /\ hazard_rates[FirstTenor] = 13333

-----------------------------------------------------------------------------
(* Properties of BasisAnalyzer (specification SpecBasis) *)

AnalyzerCurve == dicts[market_data["cds_curve"]]

(* C2: at the start of every shock iteration of stress_test_basis, and     *)
(* when it returns, the curve held by the analyzer has exactly the entries *)
(* it had when stress_test_basis was called.                               *)
C2_StressTestRestoresCurve ==
    apc \in {"loop", "returned"} => AnalyzerCurve = pre_curve

C2_Witness ==
    /\ apc = "returned"
    /\ Len(results) = 2
    /\ results[1].New_CDS_Spread # results[2].New_CDS_Spread
    /\ dicts[1] # pre_curve
    /\ AnalyzerCurve = pre_curve

(* C3: analyze() gives every basis exactly one signal: basis < -20 strong  *)
(* negative; -20 <= basis < 0 moderate negative; basis > 20 strong         *)
(* positive; 0 < basis <= 20 moderate positive; basis = 0 neutral.         *)
C3_SignalClassification ==
    analysis.called =>
        LET b == analysis.basis
            s == analysis.results.Trade_Signal
            strong == 20 * MilliPerBp
            classes == {<<b < -strong, "Strong Negative Basis">>,
                        <<-strong <= b /\ b < 0, "Negative Basis">>,
                        <<b > strong, "Strong Positive Basis">>,
                        <<0 < b /\ b <= strong, "Positive Basis">>,
                        <<b = 0, "Neutral Basis">>}
        IN  /\ \A c \in classes : c[1] <=> (s = c[2])
            /\ Cardinality({c \in classes : c[1]}) = 1

C3_Witness ==
    /\ analysis.called
    /\ analysis.basis = -20 * MilliPerBp
    /\ analysis.results.Trade_Signal = "Negative Basis"

(* C10: an analyze() call without a reference tenor uses the tenor of the  *)
(* spread curve that minimizes |tenor - maturity|, the first such tenor in *)
(* the curve's iteration order, and its basis is the spread of that tenor  *)
(* minus the Z-spread (reported rounded to 2 decimals).                    *)
AnalyzeStep ==
    \/ analysis' # analysis
    \/ apc = "idle" /\ apc' = "loop"
    \/ apc = "shocked" /\ apc' = "analyzed"

FirstClosestIndex(curve, maturity) ==
    CHOOSE k \in DOMAIN curve :
        /\ \A j \in DOMAIN curve : Abs(curve[k][1] - maturity) <= Abs(curve[j][1] - maturity)
        /\ \A j \in 1..(k - 1) : Abs(curve[j][1] - maturity) > Abs(curve[k][1] - maturity)

C10_ClosestTenorAndBasis ==
    [][(AnalyzeStep /\ analysis'.reference_cds_tenor = None) =>
          LET maturity == market_data["bond"]["years_to_maturity"]
              k == FirstClosestIndex(AnalyzerCurve, maturity)
          IN  /\ analysis'.results.CDS_Tenor = AnalyzerCurve[k][1]
              /\ analysis'.results.CDS_Spread_bps = AnalyzerCurve[k][2]
              /\ analysis'.basis = AnalyzerCurve[k][2] * MilliPerBp - analysis'.z_spread_bps
              /\ analysis'.results.Basis_bps * 10 - analysis'.basis \in -5..5
    ]_vars

C10_Witness ==
    /\ analysis.called
    /\ analysis.reference_cds_tenor = None
    /\ apc = "idle"
    /\ Len(AnalyzerCurve) = 2
    /\ Abs(AnalyzerCurve[1][1] - market_data["bond"]["years_to_maturity"])
          = Abs(AnalyzerCurve[2][1] - market_data["bond"]["years_to_maturity"])
    /\ AnalyzerCurve[1][1] > AnalyzerCurve[2][1]
    /\ analysis.results.CDS_Tenor = AnalyzerCurve[1][1]
    /\ analysis.basis = AnalyzerCurve[1][2] * MilliPerBp - analysis.z_spread_bps

(* C12: calculate_z_spread does not raise.  When the objective has no sign *)
(* change over [-0.10, 0.20] it returns calculate_ytm(target_price) minus  *)
(* the risk-free rate at maturity; when the bracket holds, the z it        *)
(* returns lies in [-0.10, 0.20].                                          *)
NoSignChange ==
    \/ market_data["bond"]["price"] > 1000 * MilliPerBp
    \/ market_data["bond"]["price"] < -2000 * MilliPerBp

C18_EngineCurveUnchanged ==
    apc \in {"loop", "shocked", "analyzed", "returned"} => dicts[engine_cds] = pre_curve

-----------------------------------------------------------------------------
(* Validation of spreads (specification Spec) *)

(* C20: every spread of an accepted snapshot is > 0: a snapshot whose      *)
(* curve has a zero or negative spread makes construction raise            *)
(* ValueError.                                                             *)
C20_NonPositiveSpreadRejected ==
    (/\ RequiredKeys \subseteq DOMAIN market_data
     /\ "recovery_rate" \in DOMAIN market_data["bond"]
     /\ \E k \in DOMAIN SnapshotCurve : SnapshotCurve[k][2] <= 0) =>
        \/ pc = "start"
        \/ pc = "raised" /\ exc = "ValueError"

-----------------------------------------------------------------------------
(* Properties of the pricer and of the engine's queries (specification     *)
(* SpecPricer)                                                             *)

(* C11: for a bond with maturity > 0 and an integer frequency >= 1 the     *)
(* schedule has at least one row, the payment times are k / frequency for  *)
(* k = 1, 2, ... in increasing order, no time exceeds the maturity and the *)
(* last time equals it, the last payment is coupon + face value and every  *)
(* other payment is the coupon alone.                                      *)
C11_ScheduleEndsAtMaturity ==
    result.op = "calculate_synthetic_price" =>
        LET bond == market_data["bond"]
            years == bond["years_to_maturity"]
            frequency == BondGet(bond, "frequency", 2)
            coupon == (bond["coupon"] * 100) \div frequency
            rows == result.schedule
            n == Len(rows)
        IN  (years > 0 /\ frequency >= 1) =>
                /\ n >= 1
                /\ \A k \in 1..n : rows[k].Time * frequency = k * TimePerYear
                /\ \A k \in 1..n : rows[k].Time <= years
                /\ rows[n].Time = years
                /\ \A k \in 1..n :
                      rows[k].Payment = coupon + (IF k = n THEN 100 * MoneyScale ELSE 0)

-----------------------------------------------------------------------------
(* Properties of the pipeline after construction (specification            *)
(* SpecPipeline)                                                           *)

(* C19: once construction has returned, no call (survival queries, forward *)
(* hazards, the curve summary, pricing, the yield solver, analyze, the     *)
(* stress test) changes hazard_rates.                                      *)
C19_HazardCurveReadOnly ==
    [][pc = "done" => hazard_rates' = hazard_rates]_vars

C19_Witness ==
    /\ pc = "done"
    /\ apc = "returned"
    /\ dicts[engine_cds] # pre_curve
    /\ result.op = "calculate_synthetic_price"
    /\ hazard_rates = ConstructedHazard(pre_curve, 40)

-----------------------------------------------------------------------------
(* Properties of the analyzer's reports (specification SpecBasis) *)

(* C29: the Trade_Signal of a result is the classification of the          *)
(* Basis_bps the result reports (the basis rounded to 2 decimals): a       *)
(* reported 0.0 is neutral, a reported value of [-20.0, 0) is moderate     *)
(* negative, a reported value of (0, 20.0] is moderate positive.           *)
C29_SignalClassifiesReportedBasis ==
    analysis.called =>
        analysis.results.Trade_Signal = trade_signal(analysis.results.Basis_bps * 10)

-----------------------------------------------------------------------------
(* Bounds of the forward hazard (specification Spec) *)

(* C24: for every constructed engine and all 0 <= t1 < t2,                 *)
(* get_forward_hazard_rate(t1, t2) is strictly positive and at most        *)
(* MAX_HAZARD_RATE.                                                        *)
C24_ForwardHazardWithinBounds ==
    (pc = "done" /\ InputContract) =>
        \A t1, t2 \in 0..MaxTime :
            t1 < t2 =>
                LET forward == get_forward_hazard_rate(hazard_rates, t1, t2)
                IN  /\ forward.exc = "none"
                    /\ forward.value[1] > 0
                    /\ forward.value[1] <= MAX_HAZARD_RATE * forward.value[2]

(* C27: stress_test_basis returns one row per shock, in the order of the   *)
(* shocks list.  For shock s every tenor of the curve holds base_cds + s   *)
(* while analyze() recomputes, where base_cds is the reference-tenor       *)
(* spread of the unshocked curve; the row has New_CDS_Spread = base_cds +  *)
(* s, the Z_Spread_bps of the unshocked analysis and                       *)
(* Basis_bps = round(base_cds + s - z_spread_bps, 2).                      *)
C27_StressRowsAreFlatCurveAnalyses ==
    apc \in {"loop", "shocked", "analyzed", "returned"} =>
        LET z_spread_bps == calculate_z_spread.value
            maturity == market_data["bond"]["years_to_maturity"]
            reference == pre_curve[FirstClosestIndex(pre_curve, maturity)]
            n == IF apc = "analyzed" THEN shock_ix ELSE shock_ix - 1
        IN  /\ base_cds = reference[2]
            /\ apc \in {"shocked", "analyzed"} =>
                  /\ Keys(AnalyzerCurve) = Keys(pre_curve)
                  /\ \A k \in DOMAIN AnalyzerCurve :
                        AnalyzerCurve[k][2] = base_cds + spread_shocks[shock_ix]
            /\ Len(results) = n
            /\ apc = "returned" => n = Len(spread_shocks)
            /\ \A k \in 1..Len(results) :
                  /\ results[k].CDS_Shock_bps = spread_shocks[k]
                  /\ results[k].New_CDS_Spread = base_cds + spread_shocks[k]
                  /\ results[k].Z_Spread_bps = round2(z_spread_bps)
                  /\ results[k].Basis_bps =
                         round2((base_cds + spread_shocks[k]) * MilliPerBp - z_spread_bps)

C27_Witness ==
    /\ apc = "returned"
    /\ Len(results) = 2
    /\ spread_shocks = <<25, -50>>
    /\ Len(pre_curve) = 2
    /\ pre_curve[1][2] # pre_curve[2][2]
    /\ results[1].Basis_bps - results[2].Basis_bps = 75 * 100
    /\ results[1].Z_Spread_bps = results[2].Z_Spread_bps

-----------------------------------------------------------------------------
(* Errors during the stress test (specification SpecPipeline) *)

(* C28: when analyze() raises during a shock scenario of                   *)
(* stress_test_basis, the curve the analyzer holds is left with the        *)
(* entries it had before the stress test.                                  *)
C28_FailedStressTestRestoresCurve ==
    (apc = "raised" /\ shock_ix >= 1) => AnalyzerCurve = pre_curve

-----------------------------------------------------------------------------
(* Order of the bootstrap (specification Spec) *)

(* C25: the nodes are calibrated in strictly ascending tenor order         *)
(* whatever the insertion order of the spread curve.  While node i is      *)
(* being solved, through every trial evaluation, the stored hazards of     *)
(* nodes 1..i-1 do not change and no larger tenor is in the curve; when    *)
(* node i completes its stored value is the value the solve step returns   *)
(* (the clipped solution or the credit triangle, not the last trial), and  *)
(* no later step changes it.                                               *)
C25_NodesCalibratedInOrderAndFrozen ==
    [][/\ pc \in {"bootstrap", "solving"} =>
             LET st == sorted_tenors(engine_cds)
                 calibrated == {st[k] : k \in 1..node}
                 tenor == st[node + 1]
             IN  /\ \A k \in 1..(Len(st) - 1) : st[k] < st[k + 1]
                 /\ calibrated \subseteq DOMAIN hazard_rates
                 /\ DOMAIN hazard_rates \subseteq calibrated \union {tenor}
                 /\ DOMAIN hazard_rates' \subseteq calibrated \union {tenor}
                 /\ \A t \in calibrated : hazard_rates'[t] = hazard_rates[t]
                 /\ node' \in {node, node + 1}
                 /\ (node' = node + 1 /\ node >= 1) =>
                       \/ /\ MIN_HAZARD_RATE <= hazard_rates'[tenor]
                          /\ hazard_rates'[tenor] <= MAX_HAZARD_RATE
                       \/ hazard_rates'[tenor] =
                              credit_triangle(spread_of(engine_cds, tenor), recovery)
       /\ pc = "done" => hazard_rates' = hazard_rates
    ]_vars

C25_Witness ==
    /\ pc = "done"
    /\ node = 2
    /\ dicts[engine_cds][1][1] > dicts[engine_cds][2][1]
    /\ log = {}
    /\ hazard_rates[dicts[engine_cds][1][1]] = MAX_HAZARD_RATE
    /\ result.op = "survival_prob"

-----------------------------------------------------------------------------
(* The risk-free rate lookup (specification SpecRates) *)

(* C22: on a non-empty curve the lookup rate(t) does not fail; it is the   *)
(* rate of the smallest tenor for t <= min tenor, the rate of the largest  *)
(* tenor for t >= max tenor, and otherwise r1 + (r2 - r1) * (t - t1) /     *)
(* (t2 - t1) between the bracketing tenors t1 <= t <= t2, whatever the     *)
(* insertion order of the curve; it lies between the smallest and the      *)
(* largest rate; the engine's and the pricer's lookups agree.              *)
RateOf(rf_curve, t) ==
    LET T == Keys(rf_curve)
        lo == CHOOSE u \in T : \A v \in T : u <= v
        hi == CHOOSE u \in T : \A v \in T : v <= u
    IN  IF t <= lo THEN Get(rf_curve, lo) * MilliPerBp
        ELSE IF t >= hi THEN Get(rf_curve, hi) * MilliPerBp
        ELSE LET t1 == CHOOSE u \in T : u < t /\ \A v \in T : v < t => v <= u
                 t2 == CHOOSE u \in T : u >= t /\ \A v \in T : v >= t => u <= v
                 r1 == Get(rf_curve, t1) * MilliPerBp
                 r2 == Get(rf_curve, t2) * MilliPerBp
             IN  r1 + ((r2 - r1) * (t - t1)) \div (t2 - t1)

C22_RateLookupClampsAndInterpolates ==
    LET rf_curve == market_data["treasury_curve"]
        rates == {rf_curve[k][2] * MilliPerBp : k \in DOMAIN rf_curve}
    IN  (result.op \in {"HazardRateEngine._get_risk_free_rate",
                        "SyntheticPricer._get_risk_free_rate"}
         /\ rf_curve # << >>) =>
            /\ result.exc = "none"
            /\ result.value = RateOf(rf_curve, result.t)
            /\ \E lo, hi \in rates : lo <= result.value /\ result.value <= hi
            /\ result.value = HazardRateEngine_get_risk_free_rate(rf_curve, result.t)
            /\ result.value = _get_risk_free_rate(rf_curve, result.t)

C22_Witness ==
    /\ result.op = "SyntheticPricer._get_risk_free_rate"
    /\ market_data["treasury_curve"] = <<<<8, 440>>, <<2, 400>>, <<4, 425>>>>
    /\ result.t = 7
    /\ result.value = 436250

-----------------------------------------------------------------------------
(* The synthetic price (specification SpecPricer) *)

(* C21: every cash-flow record has present_value = payment *               *)
(* discount_factor * survival_prob with discount_factor = exp(-rf(t) * t), *)
(* and the synthetic price is the sum of the present values; so for a bond *)
(* with positive payments and a hazard curve with all rates > 0 the        *)
(* synthetic price is strictly less than the price of the same cash flows  *)
(* discounted on the same curve with survival probability 1: term by term  *)
(* the payment is the same and the exponent is strictly larger.            *)
RisklessTerm(row) ==
    [Payment |-> row.Payment,
     Exponent |-> RateOf(market_data["treasury_curve"], row.Time) * row.Time]

TermLess(a, b) == a.Payment = b.Payment /\ a.Payment > 0 /\ a.Exponent > b.Exponent

C21_SyntheticPriceBelowRiskless ==
    result.op = "calculate_synthetic_price" =>
        LET rows == result.schedule
        IN  /\ \A k \in DOMAIN rows :
                  /\ rows[k].Discount_Factor = rows[k].Risk_Free_Rate * rows[k].Time
                  /\ rows[k].Survival_Prob =
                         PiecewiseCumulativeHazard(hazard_rates, rows[k].Time)
                  /\ rows[k].PV.Payment = rows[k].Payment
                  /\ rows[k].PV.Exponent =
                         rows[k].Discount_Factor + HazardExponent * rows[k].Survival_Prob
            /\ result.total_pv = [k \in DOMAIN rows |-> rows[k].PV]
            /\ result.accrued = 0
            /\ (/\ \A k \in DOMAIN rows : rows[k].Payment > 0
                /\ \A t \in DOMAIN hazard_rates : hazard_rates[t] > 0) =>
                   /\ Len(result.total_pv) >= 1
                   /\ \A k \in DOMAIN rows :
                         TermLess(result.total_pv[k], RisklessTerm(rows[k]))

C21_Witness ==
    /\ result.op = "calculate_synthetic_price"
    /\ Len(result.schedule) = 3
    /\ \A k \in 1..3 : result.schedule[k].Payment > 0
    /\ Cardinality(DOMAIN hazard_rates) = 2
    /\ result.total_pv[3].Exponent > result.schedule[3].Discount_Factor
    /\ result.schedule[3].Discount_Factor > 0

-----------------------------------------------------------------------------
(* Duration and convexity (specification SpecSensitivities) *)

(* C23: calculate_duration(price) returns macaulay_duration =              *)
(* sum(t * PV) / sum(PV) over the credit-weighted cash flows,              *)
(* modified_duration = macaulay_duration / (1 + YTM(price) / frequency)    *)
(* and dv01 = modified_duration * price / 10000, for every bond and price  *)
(* (None standing for the synthetic price); calculate_convexity(price)     *)
(* returns sum(t * (t + 1/frequency) * PV) / (price * frequency^2) for a   *)
(* positive price.                                                         *)
CreditWeightedFlows ==
    LET bond == market_data["bond"]
        frequency == BondGet(bond, "frequency", 2)
        times == payment_times(bond)
    IN  [k \in DOMAIN times |->
            [Payment |-> (bond["coupon"] * 100) \div frequency
                             + (IF k = Len(times) THEN 100 * MoneyScale ELSE 0),
             Exponent |-> RateOf(market_data["treasury_curve"], times[k]) * times[k]
                              + HazardExponent
                                    * PiecewiseCumulativeHazard(hazard_rates, times[k])]]

PriceUsed ==
    IF result.price = None
    THEN [synthetic |-> TRUE, amount |-> 0, total_pv |-> CreditWeightedFlows]
    ELSE [synthetic |-> FALSE, amount |-> result.price[1], total_pv |-> << >>]

-----------------------------------------------------------------------------
(* The objective of the hazard solver (specification Spec) *)

(* C26: for a node i > 1 the objective at a trial hazard is premiumLeg -   *)
(* protectionLeg, both summed over the grid t = dt, 2dt, ... whose points  *)
(* are all <= T_i and which ends at T_i; a premium term is                 *)
(* spread * dt * S(t) * D(t), a protection term                            *)
(* (1 - R) * (S(t - dt) - S(t)) * D(t); S uses the calibrated hazards of   *)
(* the earlier nodes and the trial hazard on (T_{i-1}, T_i]; the first     *)
(* trial is the previous node's hazard.                                    *)
C26_ObjectiveIntegratesToTenor ==
    (result.op = "objective" /\ pc = "solving" /\ InputContract) =>
        LET st == sorted_tenors(engine_cds)
            tenor == st[node + 1]
            dt == integration_step
            grid == result.time_grid
            rf_curve == market_data["treasury_curve"]
        IN  /\ result.tenor = tenor
            /\ Len(grid) >= 1
            /\ \A k \in DOMAIN grid : grid[k] = k * dt /\ grid[k] <= tenor
            /\ grid[Len(grid)] = tenor
            /\ DOMAIN result.premium_leg = DOMAIN grid
            /\ DOMAIN result.protection_leg = DOMAIN grid
            /\ \A k \in DOMAIN grid :
                  /\ result.premium_leg[k] =
                         [spread |-> spread_of(engine_cds, tenor),
                          integration_step |-> dt,
                          surv_t |-> PiecewiseCumulativeHazard(hazard_rates, grid[k]),
                          discount_factor |-> RateOf(rf_curve, grid[k]) * grid[k]]
                  /\ result.protection_leg[k] =
                         [loss |-> RecoveryScale - recovery,
                          surv_prev |-> PiecewiseCumulativeHazard(hazard_rates, grid[k] - dt),
                          surv_t |-> PiecewiseCumulativeHazard(hazard_rates, grid[k]),
                          discount_factor |-> RateOf(rf_curve, grid[k]) * grid[k]]
            /\ nfev = 1 => hazard_rates[tenor] = hazard_rates[st[node]]

-----------------------------------------------------------------------------
(* The cache of the data provider (specification SpecCache) *)

(* C30: in cached mode a call that finds the cache file fresh makes no     *)
(* fetch and returns a snapshot equal to the one fetched and written by    *)
(* the preceding miss: the same bond fields and the same tenor -> value    *)
(* entries of cds_curve and treasury_curve, with tenor keys of the same    *)
(* numeric type.                                                           *)
C30_CacheHitReturnsFetchedSnapshot ==
    (provider.mode = "cached" /\ provider.hit) =>
        /\ provider.returned = provider.fetched
        /\ \A field \in {"cds_curve", "treasury_curve"} :
              \A k \in DOMAIN provider.returned[1][field] :
                  provider.returned[1][field][k][1].type = "float"

====
